---- MODULE Spec2Model ----
(***************************************************************************)
(* DAC Directive Viewer (src/app/app.js): the provenance resolver          *)
(* (lowestDac), the DAC filter engine (updateFilters and the filter        *)
(* buttons' handlers) and the in-place search/highlight engine             *)
(* (performSearch, clearSearch, navigateSearch, highlightTextNodes).       *)
(*                                                                         *)
(* Strings are sequences of one-character strings.  JavaScript indices     *)
(* (String.prototype.slice, RegExp.lastIndex, Array.indexOf) are kept      *)
(* 0-based; the sequence operators convert at the point of use.            *)
(***************************************************************************)
EXTENDS Integers, Sequences, FiniteSets, TLC

\* ------------------------------------------------------------------------
\* Program constants (app.js 23-28)
\* ------------------------------------------------------------------------
ALL_DACS == <<"DAC1", "DAC2", "DAC3", "DAC4", "DAC5", "DAC6", "DAC7", "COVID">>

NORWAY_RELEVANT == <<"DAC1", "DAC2", "DAC3", "DAC6">>

DAC_ORDER == <<"DAC1", "DAC2", "DAC3", "DAC4", "DAC5", "DAC6", "COVID", "DAC7">>

\* Rank given by the comparator of lowestDac to a tag that is not in DAC_ORDER.
UNKNOWN_RANK == 999

\* Minimum length of a search term that is scanned (performSearch).
MIN_TERM_LENGTH == 2

\* Tags that occur in documents but not in the catalog ("Corrigendum etc.").
UnknownTags == {"CORR", "M1"}

Range(s) == {s[i] : i \in 1..Len(s)}

CatalogTags == Range(ALL_DACS)

AllTags == CatalogTags \cup UnknownTags

\* ------------------------------------------------------------------------
\* Bounds of the model
\* ------------------------------------------------------------------------
\* Longest list of sources handed to lowestDac.
MaxSources == 3

\* ------------------------------------------------------------------------
\* Provenance resolver (app.js 36-46)
\* ------------------------------------------------------------------------
\* Array.prototype.indexOf: the 0-based index of the first occurrence, or -1.
IndexOf(arr, x) ==
  IF \E i \in 1..Len(arr) : arr[i] = x
    THEN (CHOOSE i \in 1..Len(arr) : arr[i] = x /\ \A j \in 1..(i - 1) : arr[j] # x) - 1
    ELSE -1

\* The comparator handed to sort: unknown DACs go last.
DacCompare(a, b) ==
  LET ai == IndexOf(DAC_ORDER, a)
      bi == IndexOf(DAC_ORDER, b)
  IN  (IF ai = -1 THEN UNKNOWN_RANK ELSE ai) - (IF bi = -1 THEN UNKNOWN_RANK ELSE bi)

\* One step of a stable sort: x goes before the first element that compares
\* greater than x, after every element that compares equal to it.
RECURSIVE SortedInsert(_, _)
SortedInsert(x, sorted) ==
  IF sorted = <<>> THEN <<x>>
  ELSE IF DacCompare(Head(sorted), x) > 0 THEN <<x>> \o sorted
  ELSE <<Head(sorted)>> \o SortedInsert(x, Tail(sorted))

\* Array.prototype.sort with the comparator above (stable since ES2019).
RECURSIVE SortByDacOrder(_)
SortByDacOrder(arr) ==
  IF arr = <<>> THEN <<>>
  ELSE SortedInsert(arr[Len(arr)], SortByDacOrder(SubSeq(arr, 1, Len(arr) - 1)))

lowestDacFirst(sources) ==
  IF Len(sources) = 0 THEN "DAC1"
  ELSE sources[1]

lowestDac(sources) ==
  IF Len(sources) = 0 THEN "DAC1"
  ELSE SortByDacOrder(sources)[1]

\* ------------------------------------------------------------------------
\* The document (data, app.js 16 and 56): two chapters, three articles and
\* one annex, in document order.  An article's or annex's contentHtml is
\* the sequence of its text nodes; a text node carries its text, whether it
\* lies inside a decoration that the search skips (.dac-provenance-marker,
\* .dac-label, .dac-operation, .title-article-norm, .stitle-article-norm)
\* and the data-dac of the .dac-zone that encloses it ("none": no zone).
\* ------------------------------------------------------------------------
Articles == <<"art1", "art2", "art3">>

Annexes == <<"anx1">>

\* Document order of the content units (renderContent, app.js 263-310).
UnitOrder == Articles \o Annexes

Units == Range(UnitOrder)

ChapterHeadings == {"ch1", "ch2"}

\* article.sources / annex.sources of the loaded document.
UnitSources ==
  [art1 |-> <<"DAC2", "DAC1">>, art2 |-> <<"DAC6">>, art3 |-> <<"CORR">>,
   anx1 |-> <<"DAC7">>]

\* block.dataset.sources, written by createArticleBlock (app.js 331) and
\* createAnnexBlock (app.js 387) and read back by updateFilters.
BlockSources(u) == UnitSources[u]

TocSourcesFirstOnly(u) == <<UnitSources[u][1]>>

\* a.dataset.sources of the TOC entry, written by createTocArticle
\* (app.js 183) and by renderTOC for an annex (app.js 146).
TocSources(u) == UnitSources[u]

\* block.dataset.primaryDac (app.js 335 for an article, 388 for an annex).
PrimaryDac(u) ==
  IF u \in Range(Articles) THEN lowestDac(UnitSources[u]) ELSE UnitSources[u][1]

\* Texts that the first text node of art1 is drawn from.
Texts ==
  { <<"x", "a", "b">>,
    <<"a", "b">>,
    <<"a", "a", "a">>,
    <<"A", "b", "x", "a", "B">> }

TextNode(t, e, z) == [text |-> t, excl |-> e, zone |-> z]

\* The contentHtml of every unit, art1's two prose nodes being t1 and t2.
\* art1 holds a .dac-label decoration whose text is "ab", and its last text
\* node lies in the DAC2 zone.
Document(t1, t2) ==
  [art1 |-> << TextNode(t1, FALSE, "none"),
               TextNode(<<"a", "b">>, TRUE, "none"),
               TextNode(t2, FALSE, "DAC2") >>,
   art2 |-> << TextNode(<<"b", "A", "b">>, FALSE, "DAC6") >>,
   art3 |-> << TextNode(<<"B", "B">>, TRUE, "none"),
               TextNode(<<"b", "a">>, FALSE, "none") >>,
   anx1 |-> << TextNode(<<"x", "a", "B", "a">>, FALSE, "none") >>]

\* Texts that the text node in art1's zone is drawn from.
ZoneTexts ==
  { <<"a", "b">>,
    <<"A", "b", "x", "a", "B">> }

Documents == {Document(t1, t2) : t1 \in Texts, t2 \in ZoneTexts}

DefaultDocument == Document(<<"x", "a", "b">>, <<"a", "b">>)

VARIABLES
  data,                \* the loaded document: unit -> sequence of text nodes
  dom,                 \* unit -> text node -> sequence of fragments
  btnActive,           \* DACs whose .dac-filter-btn has the class active
  activeFilters,       \* activeFilters (app.js 17)
  norwayFilterActive,  \* norwayFilterActive (app.js 21)
  norwayBtnActive,     \* #btn-norway-relevant has the class active
  hiddenZones,         \* .dac-zone elements with the class dac-zone-hidden
  hiddenBlocks,        \* article blocks dac-filtered-out, annex blocks display none
  hiddenToc,           \* TOC entries with the class toc-hidden
  collapsed,           \* blocks with the class collapsed
  scrollY,             \* window.pageYOffset
  scrollCmd,           \* the last scroll command issued
  scrollBehavior,      \* document.documentElement.style.scrollBehavior
  anchor,              \* the anchor captured by the last updateFilters
  searchInput,         \* value of #search-input
  searchTimeout,       \* whether the timer that searchTimeout names is pending
  pendingTimers,       \* number of timers set by the input handler and pending
  searchTerm,          \* searchTerm (app.js 18)
  searchMatches,       \* searchMatches (app.js 19): references to highlight spans
  currentSearchIndex,  \* currentSearchIndex (app.js 20)
  resultsCount,        \* text of #search-results-count
  hist,                \* the last operation and the state it started from
  resolverInput,       \* an argument of lowestDac
  resolverOutput       \* what lowestDac returned for it

filterVars ==
  <<btnActive, activeFilters, norwayFilterActive, norwayBtnActive,
    hiddenZones, hiddenBlocks, hiddenToc, scrollY, anchor>>

searchVars ==
  <<dom, searchInput, searchTimeout, pendingTimers, searchTerm, searchMatches,
    currentSearchIndex, resultsCount>>

resolverVars == <<resolverInput, resolverOutput>>

vars ==
  <<data, filterVars, searchVars, resolverVars, collapsed, scrollCmd, scrollBehavior, hist>>

\* ------------------------------------------------------------------------
\* Layout of the host page.  The page is a vertical stack, in the order
\* renderContent appends it (app.js 222-325): disclaimer and legend, then
\* each chapter's heading and article blocks, then the annex blocks.  A
\* block that is hidden (display: none) takes no room and its elements'
\* getBoundingClientRect() is the zero rectangle; a collapsed block shows
\* its header only; every text node of a shown body takes one line, unless
\* its zone is hidden.
\* ------------------------------------------------------------------------
\* Height of the prelude, of a chapter heading and of a block's header.
HeaderH == 1

\* Height of the viewport.
ViewportH == 3

LayoutOrder == <<"prelude", "ch1", "art1", "art2", "ch2", "art3", "anx1">>

Abs(n) == IF n < 0 THEN -n ELSE n

Clamp(n, lo, hi) == IF n < lo THEN lo ELSE IF n > hi THEN hi ELSE n

\* The .dac-zone elements of the document, each named by the text node it
\* encloses.
ZoneNodes ==
  UNION {{<<u, i>> : i \in {j \in 1..Len(data[u]) : data[u][j].zone # "none"}} : u \in Units}

BodyHeight(u, hz) == Cardinality({i \in 1..Len(data[u]) : <<u, i>> \notin hz})

ItemHeight(item, hb, hz, col) ==
  IF item \notin Units THEN HeaderH
  ELSE IF item \in hb THEN 0
  ELSE HeaderH + (IF item \in col THEN 0 ELSE BodyHeight(item, hz))

RECURSIVE HeightUpTo(_, _, _, _)
\* Sum of the heights of the first k items of the page.
HeightUpTo(k, hb, hz, col) ==
  IF k = 0 THEN 0
  ELSE HeightUpTo(k - 1, hb, hz, col) + ItemHeight(LayoutOrder[k], hb, hz, col)

PageHeight(hb, hz, col) == HeightUpTo(Len(LayoutOrder), hb, hz, col)

\* The largest scroll offset the page admits: window.scrollTo and every
\* re-layout clamp the offset to 0..MaxScroll.
MaxScroll(hb, hz, col) ==
  LET excess == PageHeight(hb, hz, col) - ViewportH IN IF excess > 0 THEN excess ELSE 0

\* Page-absolute top of a chapter heading or of an article's header.
PageTop(el, hb, hz, col) == HeightUpTo(IndexOf(LayoutOrder, el), hb, hz, col)

\* el.getBoundingClientRect().top at scroll offset sy (app.js 563, 605).
RectTop(el, hb, hz, col, sy) ==
  IF el \in hb THEN 0 ELSE PageTop(el, hb, hz, col) - sy

\* document.querySelectorAll('.chapter-heading, .article-block > .article-header')
\* in document order (app.js 560): an annex's header is not among them.
AnchorCandidates == <<"ch1", "art1", "art2", "ch2", "art3">>

NoAnchor == [el |-> "none", viewportY |-> 0, pageY |-> 0]

\* The model's record of the anchor while no updateFilters has run last.
AnchorUnset == [el |-> "none", viewportY |-> 0, pageY |-> 0, wasHidden |-> FALSE, target |-> 0]

RECURSIVE ScanAnchor(_, _, _)
\* The loop of app.js 561-571 from candidate i on; best is the anchor so far
\* (el = "none": bestDist is still Infinity).
ScanAnchor(i, best, sy) ==
  IF i > Len(AnchorCandidates) THEN best
  ELSE LET el == AnchorCandidates[i]
           top == RectTop(el, hiddenBlocks, hiddenZones, collapsed, sy)
           closer == best.el = "none" \/ Abs(top) < Abs(best.viewportY)
       IN  ScanAnchor(i + 1,
                      IF closer THEN [el |-> el, viewportY |-> top, pageY |-> top + sy]
                                ELSE best,
                      sy)

CaptureAnchor == ScanAnchor(1, NoAnchor, scrollY)

\* ------------------------------------------------------------------------
\* DAC filtering (app.js 549-613)
\* ------------------------------------------------------------------------
AllActiveOrNone(af) == Cardinality(af) = Len(ALL_DACS) \/ af = {}

\* allActive (app.js 553).
AllActive(af) == Cardinality(af) = Len(ALL_DACS)

\* sources.some(s => activeFilters.has(s)) (app.js 582, 588, 594).
SomeSourceActive(sources, af) == \E i \in 1..Len(sources) : sources[i] \in af

BlockVisibleIntersectOnly(sources, af) == SomeSourceActive(sources, af)

\* The predicate of app.js 582 and 588: whether a block stays shown.
BlockVisible(sources, af) == AllActive(af) \/ SomeSourceActive(sources, af)

\* The predicate of app.js 594: whether a TOC entry stays shown.
TocVisible(sources, af) == AllActive(af) \/ SomeSourceActive(sources, af)

ZoneVisibleAllOnly(dac, af) == AllActive(af)

\* The predicate of app.js 576: whether a .dac-zone stays shown.
ZoneVisible(dac, af) == AllActive(af) \/ dac \in af

\* What the model remembers of the last operation: its name and, for the
\* claims that compare with the state it started from, the number of matches
\* (preCount) and the current index (preIndex) it found, the button that
\* was clicked and the value norwayFilterActive had (preNorway), and whether
\* an input event came straight after another one (again), and whether the
\* block of the match made current was collapsed (wasCollapsed).
NoHist(op) ==
  [op |-> op, preCount |-> 0, preIndex |-> -1, fwdRun |-> 0, fwdStart |-> -1,
   button |-> "none", preNorway |-> FALSE, again |-> FALSE, wasCollapsed |-> FALSE]

\* The record of a filter operation started by a click on button.
FilterHist(button) == [NoHist("filter") EXCEPT !.button = button]

\* The argument of window.scrollTo (app.js 608): the offset that puts the
\* anchor back at the viewport position it had.
ScrollTargetTop(newPageY, anchorViewportY) == newPageY

ScrollTarget(newPageY, anchorViewportY) == newPageY - anchorViewportY

\* The scroll-behavior in force for the root element whose inline style is
\* inline: the inline value, or else the stylesheet's, which turns smooth
\* scrolling on (app.js 600: "Temporarily disable smooth scrolling").
EffectiveScrollBehavior(inline) == IF inline = "" THEN "smooth" ELSE inline

\* How window.scrollTo(0, y) moves the page under a scroll-behavior.
ScrollToKind(behavior) == IF behavior = "smooth" THEN "smooth" ELSE "instant"

FilterScrollBehaviorKept(savedBehavior) == savedBehavior

\* The inline scroll-behavior that updateFilters sets for its scrollTo
\* (app.js 602), savedBehavior being the value it found.
FilterScrollBehavior(savedBehavior) == "auto"

\* updateFilters, called with the buttons' classes already changed to btns.
updateFilters(btns) ==
  \E a \in {CaptureAnchor},
     hz \in {{z \in ZoneNodes : ~ZoneVisible(data[z[1]][z[2]].zone, btns)}},
     hb \in {{u \in Units : ~BlockVisible(BlockSources(u), btns)}},
     ht \in {{u \in Units : ~TocVisible(TocSources(u), btns)}} :
    \E max \in {MaxScroll(hb, hz, collapsed)} :
      \* off: window.pageYOffset once the page is laid out again
      \E off \in {Clamp(scrollY, 0, max)} :
        \E target \in {ScrollTarget(RectTop(a.el, hb, hz, collapsed, off) + off, a.viewportY)} :
          /\ btnActive' = btns
          /\ activeFilters' = btns
          /\ hiddenZones' = hz
          /\ hiddenBlocks' = hb
          /\ hiddenToc' = ht
          /\ anchor' = [el |-> a.el, viewportY |-> a.viewportY, pageY |-> a.pageY,
                        wasHidden |-> a.el \in hiddenBlocks, target |-> target]
          /\ IF a.el # "none"
               THEN /\ scrollY' = Clamp(target, 0, max)
                    /\ scrollCmd' =
                         [kind |-> ScrollToKind(EffectiveScrollBehavior(
                                     FilterScrollBehavior(scrollBehavior))),
                          target |-> target]
               ELSE /\ scrollY' = off
                    /\ UNCHANGED scrollCmd
          \* app.js 611: the saved value is put back
          /\ scrollBehavior' = scrollBehavior
          /\ UNCHANGED <<data, searchVars, resolverVars, collapsed>>

\* Click on a .dac-filter-btn (app.js 442-447).
ClickDacButton(dac) ==
  /\ UNCHANGED <<norwayFilterActive, norwayBtnActive>>
  /\ hist' = FilterHist("dac")
  /\ updateFilters(IF dac \in btnActive THEN btnActive \ {dac} ELSE btnActive \cup {dac})

\* Click on #btn-show-all (app.js 450-455).
ClickShowAll ==
  /\ norwayFilterActive' = FALSE
  /\ norwayBtnActive' = FALSE
  /\ hist' = FilterHist("showAll")
  /\ updateFilters(CatalogTags)

ClickNorwayRelevantApplyOnly ==
  /\ hist' = [FilterHist("norway") EXCEPT !.preNorway = norwayFilterActive]
  /\ norwayFilterActive' = TRUE
  /\ norwayBtnActive' = TRUE
  /\ updateFilters({d \in CatalogTags : d \in Range(NORWAY_RELEVANT)})

\* Click on #btn-norway-relevant (app.js 458-477).
ClickNorwayRelevant ==
  /\ hist' = [FilterHist("norway") EXCEPT !.preNorway = norwayFilterActive]
  /\ IF norwayFilterActive
       THEN /\ norwayFilterActive' = FALSE
            /\ norwayBtnActive' = FALSE
            /\ updateFilters(CatalogTags)
       ELSE /\ norwayFilterActive' = TRUE
            /\ norwayBtnActive' = TRUE
            /\ updateFilters({d \in CatalogTags : d \in Range(NORWAY_RELEVANT)})

\* The reader scrolls the page to offset y.
UserScroll(y) ==
  /\ y # scrollY
  /\ scrollY' = y
  /\ anchor' = AnchorUnset
  /\ hist' = NoHist("scroll")
  /\ UNCHANGED <<data, btnActive, activeFilters, norwayFilterActive, norwayBtnActive,
                 hiddenZones, hiddenBlocks, hiddenToc, searchVars,
                 resolverVars, collapsed, scrollCmd, scrollBehavior>>

\* ------------------------------------------------------------------------
\* Initial state: the module's initial values (app.js 16-21) and the page as
\* render() leaves it (app.js 65-71).
\* ------------------------------------------------------------------------
PlainText(t) == [hl |-> FALSE, text |-> t, current |-> FALSE]

\* body.innerHTML = contentHtml (app.js 375, 430): one text fragment per text node.
RenderDom(d) == [u \in Units |-> [i \in 1..Len(d[u]) |-> <<PlainText(d[u][i].text)>>]]

EmptyCount == [kind |-> "empty", n |-> 0, i |-> 0]

InitPage(d) ==
  /\ data = d
  /\ dom = RenderDom(d)
  /\ btnActive = CatalogTags
  /\ activeFilters = {}
  /\ norwayFilterActive = FALSE
  /\ norwayBtnActive = FALSE
  /\ hiddenZones = {}
  /\ hiddenBlocks = {}
  /\ hiddenToc = {}
  /\ collapsed = Range(Annexes)
  /\ scrollY = 0
  /\ scrollCmd = [kind |-> "none", target |-> 0]
  /\ scrollBehavior = ""
  /\ anchor = AnchorUnset
  /\ searchInput = <<>>
  /\ searchTimeout = FALSE
  /\ pendingTimers = 0
  /\ searchTerm = <<>>
  /\ searchMatches = <<>>
  /\ currentSearchIndex = -1
  /\ resultsCount = EmptyCount
  /\ hist = NoHist("init")

\* ------------------------------------------------------------------------
\* The filter engine alone: filter buttons and scrolling on one document.
\* ------------------------------------------------------------------------
InitFilter ==
  /\ InitPage(DefaultDocument)
  /\ resolverInput = <<>>
  /\ resolverOutput = "none"

NextFilter ==
  \/ \E dac \in CatalogTags : ClickDacButton(dac)
  \/ ClickShowAll
  \/ ClickNorwayRelevant
  \/ \E y \in 0..MaxScroll(hiddenBlocks, hiddenZones, collapsed) : UserScroll(y)

SpecFilter == InitFilter /\ [][NextFilter]_vars

\* ------------------------------------------------------------------------
\* Search: the regular expression (app.js 624, 763-765)
\* ------------------------------------------------------------------------
\* The characters escapeRegex escapes.
RegexMeta == {".", "*", "+", "?", "^", "$", "{", "}", "(", ")", "|", "[", "]", "\\"}

\* String.prototype.toLowerCase on the characters of the documents and
\* queries: what the i flag compares.
Lower(c) == IF c = "A" THEN "a" ELSE IF c = "B" THEN "b" ELSE c

RECURSIVE escapeRegex(_)
escapeRegex(str) ==
  IF str = <<>> THEN <<>>
  ELSE (IF Head(str) \in RegexMeta THEN <<"\\", Head(str)>> ELSE <<Head(str)>>)
         \o escapeRegex(Tail(str))

RECURSIVE CompileRegex(_)
\* new RegExp(source, 'gi'): the atoms of the pattern.  An escaped character
\* is that character; an unescaped "." is any character.
CompileRegex(source) ==
  IF source = <<>> THEN <<>>
  ELSE IF Head(source) = "\\" /\ Len(source) >= 2
    THEN <<[any |-> FALSE, ch |-> source[2]]>> \o CompileRegex(SubSeq(source, 3, Len(source)))
  ELSE <<[any |-> Head(source) = ".", ch |-> Head(source)]>> \o CompileRegex(Tail(source))

\* Whether the pattern matches text at the 0-based index i.
MatchesAt(re, text, i) ==
  /\ i + Len(re) <= Len(text)
  /\ \A k \in 1..Len(re) : re[k].any \/ Lower(re[k].ch) = Lower(text[i + k])

\* The 0-based index of the first match at or after from, or -1.
FindFrom(re, text, from) ==
  LET hits == {i \in from..(Len(text) - Len(re)) : MatchesAt(re, text, i)}
  IN  IF hits = {} THEN -1 ELSE CHOOSE i \in hits : \A j \in hits : i <= j

\* RegExp.prototype.exec of a global regex whose lastIndex is lastIndex:
\* the match's index (-1: null) and the new lastIndex.
RegexExec(re, text, lastIndex) ==
  IF lastIndex > Len(text) THEN [index |-> -1, lastIndex |-> 0]
  ELSE LET i == FindFrom(re, text, lastIndex)
       IN  IF i = -1 THEN [index |-> -1, lastIndex |-> 0]
           ELSE [index |-> i, lastIndex |-> i + Len(re)]

\* String.prototype.slice(from, to) with 0 <= from <= to <= length.
Slice(text, from, to) == SubSeq(text, from + 1, to)

\* ------------------------------------------------------------------------
\* Search: highlightTextNodes (app.js 683-726)
\* ------------------------------------------------------------------------
HighlightSpan(t) == [hl |-> TRUE, text |-> t, current |-> FALSE]

MatchTextAsTyped(text, from, to, term) == term

\* match[0] (app.js 712): the matched text as the document spells it; term
\* is the query it matched.
MatchText(text, from, to, term) == Slice(text, from, to)

RECURSIVE SplitLoop(_, _, _, _, _, _)
\* The while loop of app.js 706-715 with the values of regex.lastIndex (reLast),
\* lastIndex (last) and fragments (frags) at its head, then app.js 717-720:
\* the fragments that replace the text node, <<>> when nothing matched.
SplitLoop(text, re, term, reLast, last, frags) ==
  LET m == RegexExec(re, text, reLast)
  IN  IF m.index = -1
        THEN IF frags # <<>> /\ last < Len(text)
               THEN frags \o <<PlainText(Slice(text, last, Len(text)))>>
               ELSE frags
        ELSE SplitLoop(text, re, term, m.lastIndex, m.lastIndex,
               frags
                 \o (IF m.index > last THEN <<PlainText(Slice(text, last, m.index))>> ELSE <<>>)
                 \o <<HighlightSpan(MatchText(text, m.index, m.lastIndex, term))>>)

\* What textNodes.forEach does to one accepted text node (app.js 699-725).
SplitTextNode(frag, re, term) ==
  LET pieces == SplitLoop(frag.text, re, term, 0, 0, <<>>)
  IN  IF pieces = <<>> THEN <<frag>> ELSE pieces

ExcludedNever(u, i) == FALSE

\* node.parentElement.closest('.dac-provenance-marker, .dac-label, ...')
\* (app.js 687) for the text nodes of text node i of unit u.
Excluded(u, i) == data[u][i].excl

RECURSIVE WalkNode(_, _, _, _, _, _)
\* The tree walker over the fragments of one text node from fragment k on:
\* acceptNode (app.js 685-691) tests each with the shared regex, whose
\* lastIndex is carried from one test to the next.  Gives the indices of the
\* accepted fragments and the lastIndex left.
WalkNode(frags, k, re, reLast, skip, acc) ==
  IF k > Len(frags) THEN [accepted |-> acc, lastIndex |-> reLast]
  ELSE IF skip THEN WalkNode(frags, k + 1, re, reLast, skip, acc)
  ELSE LET t == RegexExec(re, frags[k].text, reLast)
       IN  WalkNode(frags, k + 1, re, t.lastIndex, skip,
                    IF t.index # -1 THEN acc \cup {k} ELSE acc)

RECURSIVE WalkBody(_, _, _, _, _, _)
\* The walk of app.js 694-697 over the text nodes of unit u from node i on.
WalkBody(u, body, i, re, reLast, acc) ==
  IF i > Len(body) THEN [accepted |-> acc, lastIndex |-> reLast]
  ELSE LET w == WalkNode(body[i], 1, re, reLast, Excluded(u, i), {})
       IN  WalkBody(u, body, i + 1, re, w.lastIndex,
                    acc \cup {<<i, k>> : k \in w.accepted})

RECURSIVE Flatten(_)
Flatten(seqs) == IF seqs = <<>> THEN <<>> ELSE Head(seqs) \o Flatten(Tail(seqs))

\* highlightTextNodes(body of u, regex): the body afterwards and the
\* regex's lastIndex afterwards (0 once a node was split: the exec that ends
\* the loop of app.js 706 resets it).
highlightTextNodes(u, body, re, term, reLast) ==
  LET w == WalkBody(u, body, 1, re, reLast, {})
  IN  [body |-> [i \in 1..Len(body) |->
                   Flatten([k \in 1..Len(body[i]) |->
                              IF <<i, k>> \in w.accepted
                                THEN SplitTextNode(body[i][k], re, term)
                                ELSE <<body[i][k]>>])],
       lastIndex |-> IF w.accepted = {} THEN w.lastIndex ELSE 0]

RECURSIVE HighlightBodies(_, _, _, _, _)
\* The forEach of app.js 628-630 from the n-th body of the document on, the
\* one regex being handed from body to body.
HighlightBodies(n, d, re, term, reLast) ==
  IF n > Len(UnitOrder) THEN d
  ELSE LET u == UnitOrder[n]
           h == highlightTextNodes(u, d[u], re, term, reLast)
       IN  HighlightBodies(n + 1, [d EXCEPT ![u] = h.body], re, term, h.lastIndex)

\* document.querySelectorAll('.search-highlight') (app.js 632, 651): the
\* highlight spans in document order, each named by unit, text node and
\* position among the node's fragments.
NodeHighlights(u, i, frags) ==
  SelectSeq([k \in 1..Len(frags) |-> <<u, i, k>>], LAMBDA r : frags[r[3]].hl)

UnitHighlights(u, body) == Flatten([i \in 1..Len(body) |-> NodeHighlights(u, i, body[i])])

AllHighlights(d) ==
  Flatten([n \in 1..Len(UnitOrder) |-> UnitHighlights(UnitOrder[n], d[UnitOrder[n]])])

\* ------------------------------------------------------------------------
\* Search: clearSearch (app.js 649-658)
\* ------------------------------------------------------------------------
NormalizeNoMerge(frags) == frags

RECURSIVE Normalize(_)
\* parent.normalize(): empty text nodes go, adjacent text nodes become one.
Normalize(frags) ==
  IF frags = <<>> THEN <<>>
  ELSE LET h == Head(frags)
           rest == Normalize(Tail(frags))
       IN  IF h.hl THEN <<h>> \o rest
           ELSE IF h.text = <<>> THEN rest
           ELSE IF rest # <<>> /\ ~rest[1].hl
             THEN <<PlainText(h.text \o rest[1].text)>> \o Tail(rest)
           ELSE <<h>> \o rest

ClearFragmentsFirstOnly(frags) ==
  IF \A k \in 1..Len(frags) : ~frags[k].hl THEN frags
  ELSE LET k == CHOOSE j \in 1..Len(frags) :
                  frags[j].hl /\ \A l \in 1..(j - 1) : ~frags[l].hl
       IN  Normalize([frags EXCEPT ![k] = PlainText(frags[k].text)])

RECURSIVE ClearFragments(_)
\* The forEach of app.js 651-655 on the spans of one text node: each span is
\* replaced by a text node of its textContent and the parent is normalized.
ClearFragments(frags) ==
  IF \A k \in 1..Len(frags) : ~frags[k].hl THEN frags
  ELSE LET k == CHOOSE j \in 1..Len(frags) :
                  frags[j].hl /\ \A l \in 1..(j - 1) : ~frags[l].hl
       IN  ClearFragments(Normalize([frags EXCEPT ![k] = PlainText(frags[k].text)]))

\* The document after the forEach of clearSearch.
ClearedDom(d) == [u \in Units |-> [i \in 1..Len(d[u]) |-> ClearFragments(d[u][i])]]

\* ------------------------------------------------------------------------
\* Search: scrolling a match into view (app.js 645, 677)
\* ------------------------------------------------------------------------
\* Page-absolute top of the line of text node i of unit u.
LineTop(u, i, hb, hz, col) ==
  PageTop(u, hb, hz, col) + HeaderH + Cardinality({j \in 1..(i - 1) : <<u, j>> \notin hz})

\* match.scrollIntoView({behavior: 'smooth', block: 'center'}): the scroll
\* offset afterwards.  A span with no box (its block or zone is display: none,
\* or its block is collapsed) does not scroll the page.
ScrollIntoViewOffset(ref, hb, hz, col, sy) ==
  IF ref[1] \in hb \/ ref[1] \in col \/ <<ref[1], ref[2]>> \in hz THEN sy
  ELSE Clamp(LineTop(ref[1], ref[2], hb, hz, col) - ((ViewportH - 1) \div 2),
             0, MaxScroll(hb, hz, col))

ExpandParentNever(col, ref) == col

\* parentBlock.classList.remove('collapsed') for the block around the span
\* named by ref (app.js 642-643, 674-675): the collapsed blocks afterwards.
ExpandParent(col, ref) == col \ {ref[1]}

SetCurrentOnly(d, ref, on) ==
  [d EXCEPT ![ref[1]][ref[2]][ref[3]].current = TRUE]

\* classList.add('current') / remove('current') on the span named by ref.
SetCurrent(d, ref, on) ==
  [d EXCEPT ![ref[1]][ref[2]][ref[3]].current = on]

\* ------------------------------------------------------------------------
\* Search: performSearch (app.js 616-647)
\* ------------------------------------------------------------------------
\* The text of #search-results-count after a scan that found count spans
\* (app.js 634-635).
FoundCount(count) ==
  IF count > 0 THEN [kind |-> "found", n |-> count, i |-> 0]
  ELSE [kind |-> "none", n |-> 0, i |-> 0]

TooShortOnlyEmpty(term) == Len(term) < 1

\* !term || term.length < 2 (app.js 619).
TooShort(term) == Len(term) < MIN_TERM_LENGTH

\* What performSearch leaves of a document d that holds no highlight: the
\* document, searchMatches and currentSearchIndex (app.js 619-639).
ScanDocument(d, term) ==
  IF TooShort(term) THEN [dom |-> d, matches |-> <<>>, index |-> -1]
  ELSE LET marked == HighlightBodies(1, d, CompileRegex(escapeRegex(term)), term, 0)
           found == AllHighlights(marked)
       IN  IF Len(found) > 0
             THEN [dom |-> SetCurrent(marked, found[1], TRUE), matches |-> found, index |-> 0]
             ELSE [dom |-> marked, matches |-> found, index |-> -1]

performSearch(term) ==
  \E r \in {ScanDocument(ClearedDom(dom), term)} :
    /\ searchTerm' = term
    /\ dom' = r.dom
    /\ searchMatches' = r.matches
    /\ currentSearchIndex' = r.index
    /\ resultsCount' = IF TooShort(term) THEN EmptyCount ELSE FoundCount(Len(r.matches))
    /\ IF Len(r.matches) > 0
         THEN \* the block of match 0 is expanded and the match scrolled to
              /\ collapsed' = ExpandParent(collapsed, r.matches[1])
              /\ scrollY' = ScrollIntoViewOffset(r.matches[1], hiddenBlocks, hiddenZones,
                                                collapsed', scrollY)
              /\ scrollCmd' = [kind |-> "smooth", target |-> scrollY']
         ELSE UNCHANGED <<collapsed, scrollY, scrollCmd>>

\* ------------------------------------------------------------------------
\* Search: navigateSearch (app.js 660-681)
\* ------------------------------------------------------------------------
WrapIndexClamped(i, n) == IF i >= n THEN n - 1 ELSE IF i < 0 THEN 0 ELSE i

\* The wraparound of app.js 668-669.
WrapIndex(i, n) == IF i >= n THEN 0 ELSE IF i < 0 THEN n - 1 ELSE i

navigateSearch(direction) ==
  IF Len(searchMatches) = 0
    THEN UNCHANGED <<dom, currentSearchIndex, resultsCount, collapsed, scrollY, scrollCmd>>
    ELSE \E unmarked \in {IF currentSearchIndex >= 0 /\ currentSearchIndex < Len(searchMatches)
                            THEN SetCurrent(dom, searchMatches[currentSearchIndex + 1], FALSE)
                            ELSE dom},
            index \in {WrapIndex(currentSearchIndex + direction, Len(searchMatches))} :
           \E match \in {searchMatches[index + 1]} :
             /\ currentSearchIndex' = index
             /\ dom' = SetCurrent(unmarked, match, TRUE)
             /\ collapsed' = ExpandParent(collapsed, match)
             /\ scrollY' = ScrollIntoViewOffset(match, hiddenBlocks, hiddenZones,
                                               collapsed', scrollY)
             /\ scrollCmd' = [kind |-> "smooth", target |-> scrollY']
             /\ resultsCount' = [kind |-> "nav", n |-> Len(searchMatches), i |-> index + 1]

\* ------------------------------------------------------------------------
\* Search: the handlers of #search-input (app.js 517-538)
\* ------------------------------------------------------------------------
RECURSIVE TrimStart(_)
TrimStart(str) ==
  IF str # <<>> /\ Head(str) = " " THEN TrimStart(Tail(str)) ELSE str

RECURSIVE TrimEnd(_)
TrimEnd(str) ==
  IF str # <<>> /\ str[Len(str)] = " " THEN TrimEnd(SubSeq(str, 1, Len(str) - 1)) ELSE str

\* String.prototype.trim.
Trim(str) == TrimEnd(TrimStart(str))

frameOfSearch ==
  <<data, btnActive, activeFilters, norwayFilterActive, norwayBtnActive,
    hiddenZones, hiddenBlocks, hiddenToc, resolverVars, scrollBehavior>>

ClearTimeoutNoop(pending, handlePending) == pending

\* clearTimeout(searchTimeout) (app.js 520): the timers left pending, of
\* pending many, handlePending telling whether the handle's timer is one.
ClearTimeout(pending, handlePending) == IF handlePending THEN pending - 1 ELSE pending

\* An input event that changes the field to value: the pending timer is
\* cleared and a new one is set (app.js 519-524).
InputEvent(value) ==
  /\ value # searchInput
  /\ searchInput' = value
  /\ pendingTimers' = ClearTimeout(pendingTimers, searchTimeout) + 1
  /\ searchTimeout' = TRUE
  /\ hist' = [NoHist("input") EXCEPT !.again = (hist.op = "input")]
  /\ anchor' = AnchorUnset
  /\ UNCHANGED <<dom, searchTerm, searchMatches, currentSearchIndex, resultsCount,
                 collapsed, scrollY, scrollCmd, frameOfSearch>>

\* The oldest pending timer fires (app.js 521-523): its callback reads the
\* field as it is now.  searchTimeout names the timer set last.
SearchTimerFires ==
  /\ pendingTimers > 0
  /\ pendingTimers' = pendingTimers - 1
  /\ searchTimeout' = (searchTimeout /\ pendingTimers > 1)
  /\ performSearch(Trim(searchInput))
  /\ anchor' = AnchorUnset
  /\ hist' = [NoHist("search") EXCEPT
                !.preCount = Len(searchMatches),
                !.again = (hist.op = "input" /\ hist.again),
                !.wasCollapsed = (Len(searchMatches') > 0 /\ searchMatches'[1][1] \in collapsed)]
  /\ UNCHANGED <<searchInput, frameOfSearch>>

\* Enter (direction 1) or Shift+Enter (direction -1) in the field
\* (app.js 527-533).  fwdRun counts the forward steps made in a row since
\* the match fwdStart was current, up to one full round.
KeydownEnter(direction) ==
  /\ navigateSearch(direction)
  /\ anchor' = AnchorUnset
  /\ hist' = [NoHist(IF direction = 1 THEN "navForward" ELSE "navBackward") EXCEPT
                !.preIndex = currentSearchIndex,
                !.wasCollapsed = (Len(searchMatches) > 0
                                    /\ searchMatches[currentSearchIndex' + 1][1] \in collapsed),
                !.fwdRun = IF direction # 1 \/ Len(searchMatches) = 0 THEN 0
                           ELSE IF hist.op = "navForward" /\ hist.fwdRun \in 1..(Len(searchMatches) - 1)
                             THEN hist.fwdRun + 1
                           ELSE 1,
                !.fwdStart = IF direction # 1 \/ Len(searchMatches) = 0 THEN -1
                             ELSE IF hist.op = "navForward" /\ hist.fwdRun \in 1..(Len(searchMatches) - 1)
                               THEN hist.fwdStart
                             ELSE currentSearchIndex]
  /\ UNCHANGED <<searchInput, searchTimeout, pendingTimers, searchTerm, searchMatches,
                 frameOfSearch>>

KeydownEscapeShowingAll ==
  /\ searchInput' = <<>>
  /\ dom' = ClearedDom(dom)
  /\ searchMatches' = <<>>
  /\ currentSearchIndex' = -1
  /\ hiddenBlocks' = {}
  /\ hist' = [NoHist("clear") EXCEPT !.preCount = Len(searchMatches)]
  /\ anchor' = AnchorUnset
  /\ UNCHANGED <<searchTimeout, pendingTimers, searchTerm, resultsCount, collapsed,
                 scrollY, scrollCmd, data, btnActive, activeFilters, norwayFilterActive,
                 norwayBtnActive, hiddenZones, hiddenToc, resolverVars, scrollBehavior>>

\* Escape in the field (app.js 534-537): the field is emptied and
\* clearSearch runs; the pending timer is left alone.
KeydownEscape ==
  /\ searchInput' = <<>>
  /\ dom' = ClearedDom(dom)
  /\ searchMatches' = <<>>
  /\ currentSearchIndex' = -1
  /\ hist' = [NoHist("clear") EXCEPT !.preCount = Len(searchMatches)]
  /\ anchor' = AnchorUnset
  /\ UNCHANGED <<searchTimeout, pendingTimers, searchTerm, resultsCount, collapsed,
                 scrollY, scrollCmd, frameOfSearch>>

\* ------------------------------------------------------------------------
\* Expanding and collapsing (app.js 368-370, 424, 480-486)
\* ------------------------------------------------------------------------
\* The blocks' class collapsed becomes col; the page is laid out again.
SetCollapsed(col, op) ==
  /\ collapsed' = col
  /\ scrollY' = Clamp(scrollY, 0, MaxScroll(hiddenBlocks, hiddenZones, col))
  /\ hist' = NoHist(op)
  /\ anchor' = AnchorUnset
  /\ UNCHANGED <<searchVars, scrollCmd, frameOfSearch>>

\* Click on the header of unit u's block.
ClickHeader(u) ==
  SetCollapsed(IF u \in collapsed THEN collapsed \ {u} ELSE collapsed \cup {u}, "toggle")

\* Click on #btn-expand-all.
ClickExpandAll == SetCollapsed({}, "expandAll")

\* Click on #btn-collapse-all.
ClickCollapseAll == SetCollapsed(Units, "collapseAll")

\* ------------------------------------------------------------------------
\* The search engine alone: typing, the debounce timer, Enter and Escape,
\* on every document of Documents.
\* ------------------------------------------------------------------------
\* Longest query typed, blanks aside.
MaxQueryLen == 2

QueryChars == {"a", "B"}

RECURSIVE StringsUpTo(_)
\* The strings over QueryChars of length at most n.
StringsUpTo(n) ==
  IF n = 0 THEN {<<>>}
  ELSE LET shorter == StringsUpTo(n - 1)
       IN  shorter \cup {Append(q, c) : q \in {r \in shorter : Len(r) = n - 1}, c \in QueryChars}

\* What the reader types: the strings above, a query with a regex
\* metacharacter, and values with blanks around them.
InputValues ==
  StringsUpTo(MaxQueryLen)
    \cup {<<"a", ".">>, <<" ", "a", "B", " ">>}

InitSearch ==
  /\ \E d \in Documents : InitPage(d)
  /\ resolverInput = <<>>
  /\ resolverOutput = "none"

NextSearch ==
  \/ \E value \in InputValues : InputEvent(value)
  \/ SearchTimerFires
  \/ \E direction \in {1, -1} : KeydownEnter(direction)
  \/ KeydownEscape

SpecSearch == InitSearch /\ [][NextSearch]_vars

\* ------------------------------------------------------------------------
\* The whole page: filtering, searching and collapsing interleaved on one
\* document, the reader clicking the buttons of ToggledDacs and the headers
\* of ClickedHeaders and typing the values of TypedValues.
\* ------------------------------------------------------------------------
PageDocument == Document(<<"a", "a", "a">>, <<"a", "b">>)

ToggledDacs == {"DAC2", "DAC6"}

TypedValues == {<<"a", "B">>}

ClickedHeaders == {"anx1"}

Init ==
  /\ InitPage(PageDocument)
  /\ resolverInput = <<>>
  /\ resolverOutput = "none"

Next ==
  \/ \E dac \in ToggledDacs : ClickDacButton(dac)
  \/ ClickShowAll
  \/ ClickNorwayRelevant
  \/ \E value \in TypedValues : InputEvent(value)
  \/ SearchTimerFires
  \/ \E direction \in {1, -1} : KeydownEnter(direction)
  \/ KeydownEscape
  \/ \E u \in ClickedHeaders : ClickHeader(u)
  \/ ClickExpandAll
  \/ ClickCollapseAll

Spec == Init /\ [][Next]_vars

\* ------------------------------------------------------------------------
\* What the claims about the search engine speak of
\* ------------------------------------------------------------------------
\* The text of a text node as it stands: its fragments' texts in order.
NodeText(frags) == Flatten([k \in 1..Len(frags) |-> frags[k].text])

\* Whether term occurs in text at the 0-based index i, letter case aside.
OccursAt(text, term, i) ==
  /\ i + Len(term) <= Len(text)
  /\ \A k \in 1..Len(term) : Lower(text[i + k]) = Lower(term[k])

RECURSIVE OccurrencesFrom(_, _, _)
\* The non-overlapping occurrences of term in text from index i on, left to right.
OccurrencesFrom(text, term, i) ==
  IF i + Len(term) > Len(text) THEN <<>>
  ELSE IF OccursAt(text, term, i) THEN <<i>> \o OccurrencesFrom(text, term, i + Len(term))
  ELSE OccurrencesFrom(text, term, i + 1)

\* Every occurrence of term in the text nodes the search does not exclude,
\* in document order, as <<unit, text node, index>>.
ExpectedMatches(term) ==
  Flatten([n \in 1..Len(UnitOrder) |->
    LET u == UnitOrder[n]
    IN  Flatten([i \in 1..Len(data[u]) |->
          IF data[u][i].excl THEN <<>>
          ELSE LET occ == OccurrencesFrom(data[u][i].text, term, 0)
               IN  [j \in 1..Len(occ) |-> <<u, i, occ[j]>>]])])

\* The match list as <<unit, text node, index of the span's text in the node>>.
MatchPositions ==
  [j \in 1..Len(searchMatches) |->
    LET r == searchMatches[j]
    IN  <<r[1], r[2], Len(NodeText(SubSeq(dom[r[1]][r[2]], 1, r[3] - 1)))>>]

\* The fragments of the document that are highlight spans.
HighlightFragments ==
  {dom[r[1]][r[2]][r[3]] : r \in Range(AllHighlights(dom))}

\* C2: at every moment the fragments that stand for a text node spell the
\* node's original text character for character, letter case included, and
\* after clear() no highlight is left, so every unit shows its original text.
C2_TextPreserved ==
  /\ \A u \in Units : \A i \in 1..Len(data[u]) : NodeText(dom[u][i]) = data[u][i].text
  /\ hist.op = "clear" => HighlightFragments = {}

\* clear() has just undone a search that had highlighted matches.
C2_Witness == hist.op = "clear" /\ hist.preCount > 0

\* C3: after search(q2) the document, the match list and the current index
\* are those of a search for q2 on the document as rendered, whatever was
\* highlighted before; every highlight left spells q2.
C3_SearchNotAdditive ==
  hist.op = "search" =>
    /\ LET fresh == ScanDocument(RenderDom(data), searchTerm)
       IN  /\ dom = fresh.dom
           /\ searchMatches = fresh.matches
           /\ currentSearchIndex = fresh.index
    /\ \A f \in HighlightFragments :
         Len(f.text) = Len(searchTerm) /\ OccursAt(f.text, searchTerm, 0)

\* A search that finds matches has replaced one that had found others.
C3_Witness ==
  /\ hist.op = "search"
  /\ hist.preCount > 0
  /\ Len(searchMatches) > 0
  /\ Len(searchMatches) # hist.preCount

\* C4: after a search for a term of at least 2 characters the match list is
\* exactly the non-overlapping occurrences of the term in the text nodes
\* that are not excluded, in document order.
C4_AllOccurrencesMatched ==
  (hist.op = "search" /\ Len(searchTerm) >= 2) => MatchPositions = ExpectedMatches(searchTerm)

\* The index navigate computes from index i among n matches, as the claim
\* states it: i + direction modulo n.
StepModulo(i, direction, n) == (i + direction + n) % n

\* C7: with N >= 1 matches a navigate moves the current index by +1 or -1
\* modulo N, and N forward steps in a row come back to the match they
\* started from.
C7_NavigateWraps ==
  LET n == Len(searchMatches)
  IN  n >= 1 =>
        /\ hist.op = "navForward" => currentSearchIndex = StepModulo(hist.preIndex, 1, n)
        /\ hist.op = "navBackward" => currentSearchIndex = StepModulo(hist.preIndex, -1, n)
        /\ (hist.op = "navForward" /\ hist.fwdRun = n) => currentSearchIndex = hist.fwdStart

\* A full round of forward steps among at least three matches has ended.
C7_Witness ==
  /\ hist.op = "navForward"
  /\ Len(searchMatches) >= 3
  /\ hist.fwdRun = Len(searchMatches)
  /\ hist.fwdStart > 0

\* C8: a search for a term shorter than 2 characters ends with no match,
\* current index -1 and no highlight in the document.
C8_ShortQueryFindsNothing ==
  (hist.op = "search" /\ Len(searchTerm) < 2) =>
    /\ searchMatches = <<>>
    /\ currentSearchIndex = -1
    /\ HighlightFragments = {}

\* A one-character search has replaced a search that had found matches.
C8_Witness ==
  /\ hist.op = "search"
  /\ Len(searchTerm) = 1
  /\ hist.preCount > 0

\* C14: at most one call of the input handler is pending at any moment;
\* after a burst of input events exactly one is, and when it runs it
\* searches for the field's latest value and leaves no other call to run.
C14_Debounced ==
  /\ pendingTimers <= 1
  /\ hist.op = "input" => (pendingTimers = 1 /\ searchTimeout)
  /\ hist.op = "search" => (pendingTimers = 0 /\ searchTerm = Trim(searchInput))

\* The one search of a burst of at least two input events has run and has
\* found the matches of the value typed last.
C14_Witness ==
  /\ hist.op = "search"
  /\ hist.again
  /\ pendingTimers = 0
  /\ Len(searchMatches) > 0

\* The last operation was a search or a navigate that made a match current.
MadeCurrent ==
  /\ hist.op \in {"search", "navForward", "navBackward"}
  /\ Len(searchMatches) > 0

\* The span that is the current match.
CurrentMatch == searchMatches[currentSearchIndex + 1]

\* C13: the scroll command of a filter operation is instant and the scroll
\* command of a search or a navigate that has a current match is animated;
\* after a filter operation the root's inline scroll-behavior is what it
\* was, the empty value the page starts with.
C13_ScrollKindByOperation ==
  /\ hist.op = "filter" =>
       /\ anchor.el # "none" => scrollCmd.kind = "instant"
       /\ scrollBehavior = ""
  /\ MadeCurrent => scrollCmd.kind = "smooth"

\* A filter operation has made its instant correction on a page that a
\* search had scrolled before and that still shows the search's matches.
C13_Witness ==
  /\ hist.op = "filter"
  /\ anchor.el # "none"
  /\ scrollCmd.kind = "instant"
  /\ Len(searchMatches) > 0

\* C17: after a search that finds a match, match 0 is the current match;
\* after a search or a navigate with matches the block of the current match
\* is not collapsed and the current match alone carries the mark.
C17_CurrentMatchExpanded ==
  /\ (hist.op = "search" /\ Len(searchMatches) > 0) => currentSearchIndex = 0
  /\ MadeCurrent =>
       /\ CurrentMatch[1] \notin collapsed
       /\ dom[CurrentMatch[1]][CurrentMatch[2]][CurrentMatch[3]].current

\* A search has expanded the article of its match 0, which was collapsed.
C17_Witness ==
  /\ hist.op = "search"
  /\ hist.wasCollapsed
  /\ Len(searchMatches) > 0
  /\ CurrentMatch[1] \in Range(Articles)
  /\ CurrentMatch[1] \notin collapsed

\* C18: a search creates no match in a block that the filter hides nor in
\* a sub-region that the filter hides.
C18_NoMatchInHiddenText ==
  hist.op = "search" =>
    \A j \in 1..Len(searchMatches) :
      /\ searchMatches[j][1] \notin hiddenBlocks
      /\ <<searchMatches[j][1], searchMatches[j][2]>> \notin hiddenZones

\* What the search engine owns that a filter operation must leave alone,
\* and what the filter engine owns that the search engine must leave alone.
SearchOwned == <<searchMatches, currentSearchIndex, dom, collapsed>>

FilterOwned ==
  <<activeFilters, norwayFilterActive, hiddenBlocks, hiddenZones, hiddenToc>>

\* C21: every filter operation leaves the match list, the current index,
\* the highlight fragments and the collapsed flags as they were; every
\* search, navigate and clear leaves the active set, the preset flag and the
\* visibility of every block, sub-region and TOC entry as they were.
C21_EnginesKeepToTheirState ==
  [][/\ hist'.op = "filter" => SearchOwned' = SearchOwned
     /\ hist'.op \in {"search", "navForward", "navBackward", "clear"}
          => FilterOwned' = FilterOwned]_vars

\* A clear has removed the highlights of a page on which a filter hides
\* some blocks and sub-regions, and they are still hidden.
C21_Witness ==
  /\ hist.op = "clear"
  /\ hist.preCount > 0
  /\ hiddenBlocks # {}
  /\ hiddenZones # {}
  /\ activeFilters # CatalogTags

\* clearSearch has just run: on Escape, or at the head of a search whose
\* term is too short to be scanned.
JustCleared == hist.op = "clear" \/ (hist.op = "search" /\ TooShort(searchTerm))

\* C22: after clear() every text node of every unit is one plain text
\* segment again, the segment the page was rendered with: no highlight, no
\* empty segment and no segment split in two is left.
C22_ClearRestoresShape == JustCleared => dom = RenderDom(data)

\* Escape has cleared a search that had split the first text node of art1
\* into a highlight, a plain segment and a second highlight.
C22_Witness ==
  /\ hist.op = "clear"
  /\ hist.preCount >= 2
  /\ searchTerm = <<"a", "B">>
  /\ data["art1"][1].text = <<"A", "b", "x", "a", "B">>
  /\ dom["art1"][1] = <<PlainText(<<"A", "b", "x", "a", "B">>)>>

\* The highlight spans of the document that carry the class current.
CurrentSpans ==
  {r \in Range(AllHighlights(dom)) : dom[r[1]][r[2]][r[3]].current}

\* C24: in every state the current index is -1 exactly when the match list
\* is empty and otherwise an index of the match list, and the spans marked
\* current are exactly the match at the current index, none when the list
\* is empty.
C24_CurrentIndexConsistent ==
  /\ (currentSearchIndex = -1) <=> (searchMatches = <<>>)
  /\ searchMatches # <<>> =>
       /\ currentSearchIndex \in 0..(Len(searchMatches) - 1)
       /\ CurrentSpans = {searchMatches[currentSearchIndex + 1]}
  /\ searchMatches = <<>> => CurrentSpans = {}

\* A filter operation has run while the last of three matches was current.
C24_Witness ==
  /\ hist.op = "filter"
  /\ Len(searchMatches) = 3
  /\ currentSearchIndex = 2
  /\ hiddenBlocks # {}

\* C26: while the match list is empty the counter shows no count of
\* matches, and while it is not the total the counter shows is the length of
\* the list.
C26_CounterAgreesWithMatches ==
  /\ searchMatches = <<>> => resultsCount.kind \in {"empty", "none"}
  /\ searchMatches # <<>> =>
       /\ resultsCount.kind \in {"found", "nav"}
       /\ resultsCount.n = Len(searchMatches)

\* C9: no highlight span lies in a text node of an excluded decoration.
C9_NoHighlightInExcluded ==
  \A u \in Units : \A i \in 1..Len(data[u]) :
    data[u][i].excl => \A k \in 1..Len(dom[u][i]) : ~dom[u][i][k].hl

\* A search has found matches for a term that an excluded decoration of the
\* same unit spells.
C9_Witness ==
  /\ Len(searchMatches) > 0
  /\ \E u \in Units : \E i \in 1..Len(data[u]) :
       /\ data[u][i].excl
       /\ Len(data[u][i].text) = Len(searchTerm)
       /\ OccursAt(data[u][i].text, searchTerm, 0)
       /\ \E j \in 1..Len(searchMatches) : searchMatches[j][1] = u

\* ------------------------------------------------------------------------
\* The provenance resolver alone: lowestDac applied to every list of at most
\* MaxSources distinct tags, catalog tags or not, in every order.
\* ------------------------------------------------------------------------
SourceLists ==
  {s \in UNION {[1..n -> AllTags] : n \in 0..MaxSources} :
     \A i, j \in 1..Len(s) : i # j => s[i] # s[j]}

InitResolver ==
  /\ InitPage(DefaultDocument)
  /\ resolverInput \in SourceLists
  /\ resolverOutput = "none"

\* block.dataset.primaryDac = lowestDac(article.sources) (app.js 335).
ResolvePrimary ==
  /\ resolverOutput = "none"
  /\ resolverOutput' = lowestDac(resolverInput)
  /\ hist' = NoHist("resolve")
  /\ UNCHANGED <<data, filterVars, searchVars, resolverInput, collapsed, scrollCmd,
                 scrollBehavior>>

NextResolver == ResolvePrimary

SpecResolver == InitResolver /\ [][NextResolver]_vars

\* Whether the block of unit u is shown.
Shown(u) == u \notin hiddenBlocks

\* C1: after any filter operation a content unit is shown if and only if
\* every catalog tag is active or its provenance set shares a tag with the
\* active set; with the full catalog active every unit is shown, also one
\* whose tags are all outside the catalog.
C1_VisibleIffIntersects ==
  hist.op = "filter" =>
    /\ \A u \in Units :
         Shown(u) <=> (activeFilters = CatalogTags
                        \/ Range(UnitSources[u]) \cap activeFilters # {})
    /\ activeFilters = CatalogTags => hiddenBlocks = {}

\* A filter operation has left some units shown and some hidden.
C1_Witness ==
  /\ hist.op = "filter"
  /\ activeFilters # CatalogTags
  /\ \E u, v \in Units : Shown(u) /\ ~Shown(v)

\* The anchor of the last filter operation is shown, or hidden, as it was
\* when it was captured.
AnchorVisibilityKept ==
  /\ hist.op = "filter"
  /\ anchor.el # "none"
  /\ (anchor.el \in hiddenBlocks) = anchor.wasHidden

AnchorTopNow == RectTop(anchor.el, hiddenBlocks, hiddenZones, collapsed, scrollY)

\* C6 as stated: a filter operation that does not change the visibility of
\* the captured anchor leaves it at the viewport position it had, whatever
\* was hidden or shown and whatever the scroll offset was.
C6_AnchorKeepsPosition == AnchorVisibilityKept => AnchorTopNow = anchor.viewportY

\* C6 amended: the anchor keeps its viewport position provided the scroll
\* offset asked for lies in the scrollable range of the page as it is after
\* the operation.
C6_AnchorKeepsPositionInRange ==
  (AnchorVisibilityKept
     /\ anchor.target \in 0..MaxScroll(hiddenBlocks, hiddenZones, collapsed))
    => AnchorTopNow = anchor.viewportY

\* A shown anchor stayed shown while the filter moved it on the page, and
\* the scroll offset asked for was in range.
C6_Witness ==
  /\ AnchorVisibilityKept
  /\ ~anchor.wasHidden
  /\ PageTop(anchor.el, hiddenBlocks, hiddenZones, collapsed) # anchor.pageY
  /\ anchor.target \in 0..MaxScroll(hiddenBlocks, hiddenZones, collapsed)
  /\ anchor.viewportY # 0

\* C10: after any filter operation the TOC entry of an article or annex is
\* hidden exactly when the block of that unit is hidden.
C10_TocMirrorsBlocks ==
  hist.op = "filter" => \A u \in Units : (u \in hiddenToc) <=> (u \in hiddenBlocks)

\* A filter operation has hidden some TOC entries and left others shown.
C10_Witness ==
  /\ hist.op = "filter"
  /\ hiddenToc # {}
  /\ hiddenToc # Units

C12_PresetToggles ==
  (hist.op = "filter" /\ hist.button = "norway") =>
    IF hist.preNorway
      THEN activeFilters = CatalogTags /\ ~norwayFilterActive /\ ~norwayBtnActive
      ELSE activeFilters = Range(NORWAY_RELEVANT) /\ norwayFilterActive /\ norwayBtnActive

\* The preset was clicked while it was on, and every unit is shown again.
C12_Witness ==
  /\ hist.op = "filter"
  /\ hist.button = "norway"
  /\ hist.preNorway
  /\ activeFilters = CatalogTags
  /\ hiddenBlocks = {}

\* The candidate nearest before el in document order that is shown while
\* the blocks hb are hidden ("none": there is no such candidate).
FallbackAnchor(el, hb) ==
  LET before == {i \in 1..Len(AnchorCandidates) :
                   /\ i < IndexOf(AnchorCandidates, el) + 1
                   /\ AnchorCandidates[i] \notin hb}
  IN  IF before = {} THEN "none"
      ELSE AnchorCandidates[CHOOSE i \in before : \A j \in before : j <= i]

\* The step is a filter operation that hides the anchor it captured shown.
FilterHidesAnchor ==
  /\ hist'.op = "filter"
  /\ anchor'.el # "none"
  /\ anchor'.el \notin hiddenBlocks
  /\ anchor'.el \in hiddenBlocks'

\* C16: a filter operation that hides its anchor leaves the nearest shown
\* candidate before the anchor at the viewport position that candidate had,
\* whenever the page as it is afterwards can be scrolled that far.
C16_HiddenAnchorFallsBack ==
  [][FilterHidesAnchor =>
       LET fb == FallbackAnchor(anchor'.el, hiddenBlocks')
           want == PageTop(fb, hiddenBlocks', hiddenZones', collapsed')
                     - RectTop(fb, hiddenBlocks, hiddenZones, collapsed, scrollY)
       IN  (fb # "none" /\ want \in 0..MaxScroll(hiddenBlocks', hiddenZones', collapsed'))
             => scrollY' = want]_vars

\* Among the candidates that have a box while the blocks hb are hidden, the
\* one whose top is nearest the viewport's, the first in document order
\* among equals ("none": no candidate has a box).
NearestRealized(hb, hz, col, sy) ==
  LET realized == {i \in 1..Len(AnchorCandidates) : AnchorCandidates[i] \notin hb}
      dist(i) == Abs(RectTop(AnchorCandidates[i], hb, hz, col, sy))
  IN  IF realized = {} THEN "none"
      ELSE AnchorCandidates[CHOOSE i \in realized :
             \A j \in realized : dist(i) < dist(j) \/ (dist(i) = dist(j) /\ i <= j)]

\* C23: the anchor a filter operation captures is, among the chapter
\* headings and article headers that have a box when it starts, the one
\* nearest the top of the viewport, the first in document order on a tie.
C23_AnchorIsNearestRealized ==
  [][hist'.op = "filter" =>
       anchor'.el = NearestRealized(hiddenBlocks, hiddenZones, collapsed, scrollY)]_vars

\* C25: in every state, the initial one included, activeFilters is the set
\* of the tags whose buttons are active, and the hidden blocks are those
\* that the filter predicate hides for activeFilters.
C25_ActiveSetIsButtons ==
  /\ activeFilters = btnActive
  /\ hiddenBlocks = {u \in Units : ~BlockVisible(BlockSources(u), activeFilters)}

\* C19: after any filter operation a tagged sub-region is shown if and only
\* if the whole catalog is active or its one tag is active, whether or not
\* the unit around it is shown.
C19_ZoneFollowsOwnTag ==
  hist.op = "filter" =>
    \A z \in ZoneNodes :
      (z \notin hiddenZones) <=>
        (activeFilters = CatalogTags \/ data[z[1]][z[2]].zone \in activeFilters)

\* A sub-region is hidden inside a unit that stays shown through another tag.
C19_Witness ==
  /\ hist.op = "filter"
  /\ \E z \in hiddenZones : z[1] \notin hiddenBlocks

\* C20: whenever the preset flag is on, the active set is exactly the
\* preset subset.
C20_PresetFlagMatchesActiveSet ==
  norwayFilterActive => activeFilters = Range(NORWAY_RELEVANT)

\* The orderings of a list of distinct tags.
Orderings(s) == {t \in [1..Len(s) -> Range(s)] : Range(t) = Range(s)}

\* The result is a tag of the list and, when the list holds a catalog tag,
\* the catalog tag of the list that comes first in DAC_ORDER.
EarliestOfList ==
  /\ resolverOutput \in Range(resolverInput)
  /\ Range(resolverInput) \cap CatalogTags # {} =>
       /\ resolverOutput \in CatalogTags
       /\ \A t \in Range(resolverInput) \cap CatalogTags :
            IndexOf(DAC_ORDER, resolverOutput) <= IndexOf(DAC_ORDER, t)

SameForEveryOrdering == \A t \in Orderings(resolverInput) : lowestDac(t) = resolverOutput

Resolved == hist.op = "resolve" /\ resolverInput # <<>>

DataIntegrityError == "DataIntegrityError"

\* C15: lowestDac called with the empty list fails with a
\* DataIntegrityError; it returns no tag.
C15_EmptySetFails ==
  (hist.op = "resolve" /\ resolverInput = <<>>) => resolverOutput = DataIntegrityError

====
